---- MODULE Spec2Model ----
(***************************************************************************)
(* A model of easy::dsp::random::perlin_noise_generator<T, Engine>          *)
(* (include/easy/dsp/random/noise/perlin_noise_generator.hpp).              *)
(*                                                                         *)
(* Values of value_type are modelled exactly, as dyadic rationals           *)
(* (-1)^neg * mag / 2^exp whose magnitude is an arbitrary-precision natural *)
(* number: every intermediate of operator() on a draw in [0, 511] is an     *)
(* integer below 2^53, so the arithmetic of a double is exact on them.      *)
(***************************************************************************)
EXTENDS Integers, Sequences, FiniteSets, TLC

\* ------------------------------------------------------------------------
\* Bounds of the model
\* ------------------------------------------------------------------------

\* construction instants (system_clock ticks) considered for the first sampler
MaxTick == 511

\* calls of operator() made on one sampler instance
MaxCalls == 2

\* ------------------------------------------------------------------------
\* Arithmetic of value_type
\* ------------------------------------------------------------------------

\* magnitudes are little-endian sequences of limbs in 0..Base-1, without a
\* most significant zero limb; <<>> is zero
Base == 2^15

Max(a, b) == IF a >= b THEN a ELSE b

RECURSIVE MagFromNat(_)
MagFromNat(n) ==
    IF n = 0 THEN <<>> ELSE <<n % Base>> \o MagFromNat(n \div Base)

\* only for magnitudes below 2^31
RECURSIVE MagToNat(_)
MagToNat(a) ==
    IF a = <<>> THEN 0 ELSE Head(a) + Base * MagToNat(Tail(a))

Limb(a, i) == IF i <= Len(a) THEN a[i] ELSE 0

RECURSIVE MagTrim(_)
MagTrim(a) ==
    IF a # <<>> /\ a[Len(a)] = 0 THEN MagTrim(SubSeq(a, 1, Len(a) - 1)) ELSE a

RECURSIVE MagAddFrom(_, _, _, _)
MagAddFrom(a, b, i, carry) ==
    IF i > Len(a) /\ i > Len(b)
    THEN (IF carry = 0 THEN <<>> ELSE <<carry>>)
    ELSE LET s == Limb(a, i) + Limb(b, i) + carry
         IN  <<s % Base>> \o MagAddFrom(a, b, i + 1, s \div Base)

MagAdd(a, b) == MagAddFrom(a, b, 1, 0)

\* a - b for a >= b
RECURSIVE MagSubFrom(_, _, _, _)
MagSubFrom(a, b, i, borrow) ==
    IF i > Len(a)
    THEN <<>>
    ELSE LET d == Limb(a, i) - Limb(b, i) - borrow
         IN  <<d % Base>> \o MagSubFrom(a, b, i + 1, IF d < 0 THEN 1 ELSE 0)

MagSub(a, b) == MagTrim(MagSubFrom(a, b, 1, 0))

RECURSIVE MagCmpFrom(_, _, _)
MagCmpFrom(a, b, i) ==
    IF i = 0 THEN 0
    ELSE IF a[i] # b[i] THEN (IF a[i] < b[i] THEN -1 ELSE 1)
    ELSE MagCmpFrom(a, b, i - 1)

\* -1, 0 or 1 as a < b, a = b or a > b
MagCmp(a, b) ==
    IF Len(a) # Len(b)
    THEN (IF Len(a) < Len(b) THEN -1 ELSE 1)
    ELSE MagCmpFrom(a, b, Len(a))

RECURSIVE MagMulLimb(_, _, _, _)
MagMulLimb(a, d, i, carry) ==
    IF i > Len(a)
    THEN (IF carry = 0 THEN <<>> ELSE <<carry>>)
    ELSE LET p == a[i] * d + carry
         IN  <<p % Base>> \o MagMulLimb(a, d, i + 1, p \div Base)

RECURSIVE MagMul(_, _)
MagMul(a, b) ==
    IF a = <<>> \/ b = <<>>
    THEN <<>>
    ELSE LET low  == MagTrim(MagMulLimb(a, Head(b), 1, 0))
             rest == MagMul(a, Tail(b))
         IN  MagAdd(low, IF rest = <<>> THEN <<>> ELSE <<0>> \o rest)

MagHalf(a) ==
    MagTrim([i \in 1..Len(a) |->
                (a[i] \div 2) + (Limb(a, i + 1) % 2) * (Base \div 2)])

RECURSIVE MagShr(_, _)
MagShr(a, k) == IF k = 0 THEN a ELSE MagShr(MagHalf(a), k - 1)

\* the value (-1)^neg * mag / 2^e in lowest terms; zero is never negative
RECURSIVE Num(_, _, _)
Num(neg, mag, e) ==
    IF mag = <<>> THEN [neg |-> FALSE, mag |-> <<>>, exp |-> 0]
    ELSE IF e > 0 /\ mag[1] % 2 = 0 THEN Num(neg, MagHalf(mag), e - 1)
    ELSE [neg |-> neg, mag |-> mag, exp |-> e]

FromInt(n) == Num(n < 0, MagFromNat(IF n < 0 THEN -n ELSE n), 0)

\* the magnitude of x in units of 2^(-e), for e >= x.exp
Scaled(x, e) == MagMul(x.mag, MagFromNat(2^(e - x.exp)))

Neg(x) == Num(~x.neg, x.mag, x.exp)

Add(x, y) ==
    LET e == Max(x.exp, y.exp)
        a == Scaled(x, e)
        b == Scaled(y, e)
    IN  IF x.neg = y.neg THEN Num(x.neg, MagAdd(a, b), e)
        ELSE IF MagCmp(a, b) >= 0 THEN Num(x.neg, MagSub(a, b), e)
        ELSE Num(y.neg, MagSub(b, a), e)

Sub(x, y) == Add(x, Neg(y))

Mul(x, y) == Num(x.neg # y.neg, MagMul(x.mag, y.mag), x.exp + y.exp)

Abs(x) == Num(FALSE, x.mag, x.exp)

IsZero(x) == x.mag = <<>>

\* x <= y
Leq(x, y) == LET d == Sub(y, x) IN ~d.neg

\* std::floor: the largest integral value not above x
Floor(x) ==
    IF x.exp = 0 THEN x
    ELSE LET q == MagShr(x.mag, x.exp)
         IN  IF x.neg THEN Num(TRUE, MagAdd(q, <<1>>), 0) ELSE Num(FALSE, q, 0)

\* static_cast<std::int64_t>: truncation towards zero (the draws are far
\* inside the range of a 64-bit integer)
ToInt64(x) ==
    LET n == MagToNat(MagShr(x.mag, x.exp)) IN IF x.neg THEN -n ELSE n

\* a & b on two's complement integers, for b >= 0
RECURSIVE BitAnd(_, _)
BitAnd(a, b) ==
    IF b = 0 THEN 0
    ELSE (a % 2) * (b % 2) + 2 * BitAnd(a \div 2, b \div 2)

\* ------------------------------------------------------------------------
\* internal::fade, internal::lerp, internal::grad
\* ------------------------------------------------------------------------

\* fade with the sign of its linear coefficient flipped:
\* t * t * t * (t * (t * 6 + 15) + 10)
fadeTermsPlus15(t) ==
    LET tt    == Mul(t, t)
        ttt   == Mul(tt, t)
        t6    == Mul(t, FromInt(6))
        t6p15 == Add(t6, FromInt(15))
        inner == Mul(t, t6p15)
        poly  == Add(inner, FromInt(10))
    IN  <<tt, ttt, t6, t6p15, inner, poly, Mul(ttt, poly)>>

\* the subexpressions of fade, in evaluation order; the last one is its value
fadeTerms(t) ==
    LET tt    == Mul(t, t)
        ttt   == Mul(tt, t)
        t6    == Mul(t, FromInt(6))
        t6m15 == Sub(t6, FromInt(15))
        inner == Mul(t, t6m15)
        poly  == Add(inner, FromInt(10))
    IN  <<tt, ttt, t6, t6m15, inner, poly, Mul(ttt, poly)>>

fade(t) == fadeTerms(t)[7]

\* lerp with its end points exchanged: b + t * (a - b)
lerpTermsSwapped(t, a, b) ==
    LET diff == Sub(a, b)
        prod == Mul(t, diff)
    IN  <<diff, prod, Add(b, prod)>>

\* the subexpressions of lerp, in evaluation order; the last one is its value
lerpTerms(t, a, b) ==
    LET diff == Sub(b, a)
        prod == Mul(t, diff)
    IN  <<diff, prod, Add(a, prod)>>

lerp(t, a, b) == lerpTerms(t, a, b)[3]

\* grad with the branches of its conditional exchanged
gradSwapped(hash, x) == IF BitAnd(hash, 1) = 0 THEN Neg(x) ELSE x

grad(hash, x) == IF BitAnd(hash, 1) = 0 THEN x ELSE Neg(x)

\* ------------------------------------------------------------------------
\* The permutation table
\* ------------------------------------------------------------------------

TableSize == 512

\* the initializers written in the source
permutationInit ==
    << 151, 160, 137,  91,  90,  15, 131,  13, 201,  95,  96,  53, 194, 233,   7, 225,
       140,  36, 103,  30,  69, 142,   8,  99,  37, 240,  21,  10,  23, 190,   6, 148,
       247, 120, 234,  75,   0,  26, 197,  62,  94, 252, 219, 203, 117,  35,  11,  32,
        57, 177,  33,  88, 237, 149,  56,  87, 174,  20, 125, 136, 171, 168,  68, 175,
        74, 165,  71, 134, 139,  48,  27, 166,  77, 146, 158, 231,  83, 111, 229, 122,
        60, 211, 133, 230, 220, 105,  92,  41,  55,  46, 245,  40, 244, 102, 143,  54,
        65,  25,  63, 161,   1, 216,  80,  73, 209,  76, 132, 187, 208,  89,  18, 169,
       200, 196, 135, 130, 116, 188, 159,  86, 164, 100, 109, 198, 173, 186,   3,  64,
        52, 217, 226, 250, 124, 123,   5, 202,  38, 147, 118, 126, 255,  82,  85, 212,
       207, 206,  59, 227,  47,  16,  58,  17, 182, 189,  28,  42, 223, 183, 170, 213,
       119, 248, 152,   2,  44, 154, 163,  70, 221, 153, 101, 155, 167,  43, 172,   9,
       129,  22,  39, 253,  19,  98, 108, 110,  79, 113, 224, 232, 178, 185, 112, 104,
       218, 246,  97, 228, 251,  34, 242, 193, 238, 210, 144,  12, 191, 179, 162, 241,
        81,  51, 145, 235, 249,  14, 239, 107,  49, 192, 214,  31, 181, 199, 106, 157,
       184,  84, 204, 176, 115, 121,  50,  45, 127,   4, 150, 254, 138, 236, 205,  93,
       222, 114,  67,  29,  24,  72, 243, 141, 128, 195,  78,  66, 215,  61, 156, 180 >>

\* std::array<T, 512> aggregate-initialized from permutationInit: the elements
\* without an initializer are value-initialized, i.e. zero
permutation ==
    [i \in 0..(TableSize - 1) |->
        IF i < Len(permutationInit) THEN permutationInit[i + 1] ELSE 0]

\* permutation[i]; std::array::operator[] is unchecked, so a read outside the
\* array yields whatever the build finds there (junk)
TableAt(i, junk) == IF i \in DOMAIN permutation THEN permutation[i] ELSE junk

\* what an out-of-bounds read may yield (only the low bit is ever used)
JunkFor(i) == IF i \in DOMAIN permutation /\ (i + 1) \in DOMAIN permutation
              THEN {0} ELSE {0, 1}

\* ------------------------------------------------------------------------
\* The engine and the distribution
\* ------------------------------------------------------------------------

\* The Engine parameter is any seedable uniform random bit generator.  It is
\* modelled by a linear congruential engine with EngineModulus states whose
\* call advances the state and returns the new state.
EngineModulus == 1024

\* an engine passed by value: the sampler's own engine never advances
AdvanceCopy(s) == s

Advance(s) == (5 * s + 3) % EngineModulus

\* Engine(seed)
Seeded(tick) == tick % EngineModulus

DistMin == 0
DistMax == 511

\* a real-valued distribution over [a, b]: the draws are multiples of 1/2
DrawReal(d, g) == Num(FALSE, MagFromNat(2 * d.a + (g % (2 * (d.b - d.a) + 1))), 1)

\* std::uniform_int_distribution<T>(a, b) applied to the engine's output g: an
\* integral value of T in [a, b]
Draw(d, g) == FromInt(d.a + (g % (d.b - d.a + 1)))

\* ------------------------------------------------------------------------
\* operator()
\* ------------------------------------------------------------------------

IndexMask == 255

\* the index masked to nine bits (the size of the table) instead of eight
IndexOfNineBits(random_value) == BitAnd(ToInt64(random_value), 2 * IndexMask + 1)

IndexOf(random_value) == BitAnd(ToInt64(random_value), IndexMask)

FracOf(random_value) == Sub(random_value, Floor(random_value))

\* operator() with fade applied to the fractional part, as in spatial noise
SampleFadeOfFrac(random_value, junk) ==
    LET index       == IndexOf(random_value)
        floor_value == FracOf(random_value)
        fadeT       == fadeTerms(floor_value)
        fade_value  == fade(floor_value)
        fm1         == Sub(floor_value, FromInt(1))
        g0          == grad(TableAt(index, junk), floor_value)
        g1          == grad(TableAt(index + 1, junk), fm1)
        lerpT       == lerpTerms(fade_value, g0, g1)
        mix         == lerp(fade_value, g0, g1)
        result      == Mul(mix, FromInt(2))
    IN  [random_value |-> random_value,
         index        |-> index,
         floor_value  |-> floor_value,
         fade_value   |-> fade_value,
         g0           |-> g0,
         g1           |-> g1,
         result       |-> result,
         temps        |-> {random_value, floor_value, fm1, g0, g1, mix, result}
                            \cup {fadeT[k] : k \in DOMAIN fadeT}
                            \cup {lerpT[k] : k \in DOMAIN lerpT}]

\* the locals of one call of operator() on the draw random_value
Sample(random_value, junk) ==
    LET index       == IndexOf(random_value)
        floor_value == FracOf(random_value)
        fadeT       == fadeTerms(random_value)
        fade_value  == fade(random_value)
        fm1         == Sub(floor_value, FromInt(1))
        g0          == grad(TableAt(index, junk), floor_value)
        g1          == grad(TableAt(index + 1, junk), fm1)
        lerpT       == lerpTerms(fade_value, g0, g1)
        mix         == lerp(fade_value, g0, g1)
        result      == Mul(mix, FromInt(2))
    IN  [random_value |-> random_value,
         index        |-> index,
         floor_value  |-> floor_value,
         fade_value   |-> fade_value,
         g0           |-> g0,
         g1           |-> g1,
         result       |-> result,
         temps        |-> {random_value, floor_value, fm1, g0, g1, mix, result}
                            \cup {fadeT[k] : k \in DOMAIN fadeT}
                            \cup {lerpT[k] : k \in DOMAIN lerpT}]

\* ------------------------------------------------------------------------
\* State
\* ------------------------------------------------------------------------

Instances == {1, 2}

Threads == {1, 2}

NoCall == [inst |-> 0]

VARIABLES
    generator_,     \* generator_ of each instance: the engine's state
    distribution_,  \* distribution_ of each instance: its bounds
    seed,           \* the engine state each instance was constructed with
    out,            \* the values each instance has returned, in order
    frame,          \* the locals of the latest call of operator(), or NoCall
    gcall,          \* a call of internal::grad: its arguments and its result
    mode,           \* how the calling threads share samplers
    pc,             \* where each calling thread is in its call
    local,          \* the engine state each calling thread has read
    lock,           \* the holder of the callers' mutex, or 0
    log,            \* the engine states read from each instance, in order
    tret            \* the values returned to each calling thread, in order

vars == <<generator_, distribution_, seed, out, frame, gcall,
          mode, pc, local, lock, log, tret>>

samplerVars == <<generator_, distribution_, seed, out, frame>>

threadVars == <<mode, pc, local, lock, log, tret>>

\* perlin_noise_generator(): two samplers are constructed, the first at clock
\* tick t1 and the second at t2
Constructed(t1, t2) ==
    /\ generator_ = (1 :> Seeded(t1)) @@ (2 :> Seeded(t2))
    /\ seed = generator_
    /\ distribution_ = [i \in Instances |-> [a |-> DistMin, b |-> DistMax]]
    /\ out = [i \in Instances |-> <<>>]
    /\ frame = NoCall

NoGradCall == [hash |-> 0, x |-> FromInt(0), called |-> FALSE, ret |-> FromInt(0)]

NoThreads ==
    /\ mode = "single"
    /\ pc = [t \in Threads |-> "idle"]
    /\ local = [t \in Threads |-> 0]
    /\ lock = 0
    /\ log = [i \in Instances |-> <<>>]
    /\ tret = [t \in Threads |-> <<>>]

\* Two samplers have been constructed, the second one in the same clock tick
\* as the first or in the next one.
Init ==
    /\ \E t1 \in 0..MaxTick : \E t2 \in {t1, t1 + 1} : Constructed(t1, t2)
    /\ gcall = NoGradCall
    /\ NoThreads

\* operator() with generator_ a static member: every instance draws from,
\* and advances, the engine of instance 1
CallStaticEngine(i) ==
    /\ Len(out[i]) < MaxCalls
    /\ LET state        == Advance(generator_[1])
           random_value == Draw(distribution_[i], state)
       IN  \E junk \in JunkFor(IndexOf(random_value)) :
             /\ frame' = [inst |-> i] @@ Sample(random_value, junk)
             /\ generator_' = [generator_ EXCEPT ![1] = state]
             /\ out' = [out EXCEPT ![i] = Append(@, frame'.result)]
    /\ UNCHANGED <<distribution_, seed, gcall>>
    /\ UNCHANGED threadVars

\* operator() that rebuilds its distribution over the index range on each call
CallReconfigures(i) ==
    /\ Len(out[i]) < MaxCalls
    /\ LET state        == Advance(generator_[i])
           random_value == Draw(distribution_[i], state)
       IN  \E junk \in JunkFor(IndexOf(random_value)) :
             /\ frame' = [inst |-> i] @@ Sample(random_value, junk)
             /\ generator_' = [generator_ EXCEPT ![i] = state]
             /\ out' = [out EXCEPT ![i] = Append(@, frame'.result)]
    /\ distribution_' = [distribution_ EXCEPT ![i] = [a |-> DistMin, b |-> IndexMask]]
    /\ UNCHANGED <<seed, gcall>>
    /\ UNCHANGED threadVars

\* operator() on instance i
Call(i) ==
    /\ Len(out[i]) < MaxCalls
    /\ LET state        == Advance(generator_[i])
           random_value == Draw(distribution_[i], state)
       IN  \E junk \in JunkFor(IndexOf(random_value)) :
             /\ frame' = [inst |-> i] @@ Sample(random_value, junk)
             /\ generator_' = [generator_ EXCEPT ![i] = state]
             /\ out' = [out EXCEPT ![i] = Append(@, frame'.result)]
    /\ UNCHANGED <<distribution_, seed, gcall>>
    /\ UNCHANGED threadVars

Next == \E i \in Instances : Call(i)

Spec == Init /\ [][Next]_vars

\* ------------------------------------------------------------------------
\* internal::grad as a function of its arguments
\* ------------------------------------------------------------------------

\* hash arguments -MaxHash..MaxHash
MaxHash == 8

\* x arguments n/2 for n in -MaxArg..MaxArg
MaxArg == 4

GradArgs == {Num(n < 0, MagFromNat(IF n < 0 THEN -n ELSE n), 1) : n \in -MaxArg..MaxArg}

InitGrad ==
    /\ Constructed(0, 0)
    /\ NoThreads
    /\ \E h \in -MaxHash..MaxHash : \E x \in GradArgs :
          gcall = [hash |-> h, x |-> x, called |-> FALSE, ret |-> FromInt(0)]

GradCall ==
    /\ ~gcall.called
    /\ gcall' = [gcall EXCEPT !.called = TRUE, !.ret = grad(gcall.hash, gcall.x)]
    /\ UNCHANGED samplerVars
    /\ UNCHANGED threadVars

NextGrad == GradCall

SpecGrad == InitGrad /\ [][NextGrad]_vars

\* ------------------------------------------------------------------------
\* Threads calling operator()
\* ------------------------------------------------------------------------

\* construction instants considered when threads call
MaxThreadTick == 7

\* calls of operator() made by one thread
MaxThreadCalls == 2

\* "unsync": both threads call instance 1 with no synchronization;
\* "mutex": both call instance 1 under the callers' mutex;
\* "perthread": thread t calls instance t
Modes == {"unsync", "mutex", "perthread"}

InstOf(t) == IF mode = "perthread" THEN t ELSE 1

InitThreads ==
    /\ \E t1 \in 0..MaxThreadTick : \E t2 \in {t1, t1 + 1} : Constructed(t1, t2)
    /\ gcall = NoGradCall
    /\ mode \in Modes
    /\ pc = [t \in Threads |-> "idle"]
    /\ local = [t \in Threads |-> 0]
    /\ lock = 0
    /\ log = [i \in Instances |-> <<>>]
    /\ tret = [t \in Threads |-> <<>>]

\* thread t starts a call of operator(), taking the mutex when one is used
Enter(t) ==
    /\ pc[t] = "idle"
    /\ Len(tret[t]) < MaxThreadCalls
    /\ mode = "mutex" => lock = 0
    /\ lock' = IF mode = "mutex" THEN t ELSE lock
    /\ pc' = [pc EXCEPT ![t] = "read"]
    /\ UNCHANGED <<mode, local, log, tret, gcall>>
    /\ UNCHANGED samplerVars

\* distribution_(generator_), first half: the engine's state is read
EngineRead(t) ==
    /\ pc[t] = "read"
    /\ local' = [local EXCEPT ![t] = generator_[InstOf(t)]]
    /\ log' = [log EXCEPT ![InstOf(t)] = Append(@, generator_[InstOf(t)])]
    /\ pc' = [pc EXCEPT ![t] = "write"]
    /\ UNCHANGED <<mode, lock, tret, gcall>>
    /\ UNCHANGED samplerVars

\* distribution_(generator_), second half: the advanced state is written; then
\* the rest of operator() runs on the draw and the call returns
EngineWrite(t) ==
    /\ pc[t] = "write"
    /\ LET state        == Advance(local[t])
           random_value == Draw(distribution_[InstOf(t)], state)
       IN  \E junk \in JunkFor(IndexOf(random_value)) :
             LET s == Sample(random_value, junk)
             IN  /\ generator_' = [generator_ EXCEPT ![InstOf(t)] = state]
                 /\ tret' = [tret EXCEPT ![t] = Append(@, s.result)]
    /\ lock' = IF mode = "mutex" THEN 0 ELSE lock
    /\ pc' = [pc EXCEPT ![t] = "idle"]
    /\ UNCHANGED <<mode, local, log, gcall, distribution_, seed, out, frame>>

NextThreads == \E t \in Threads : Enter(t) \/ EngineRead(t) \/ EngineWrite(t)

SpecThreads == InitThreads /\ [][NextThreads]_vars

\* ------------------------------------------------------------------------
\* Properties
\* ------------------------------------------------------------------------

Called == frame # NoCall

\* C1: the permutation table has exactly 512 elements, every element is an
\* integer in [0, 255], and the element at position i + 256 equals the element
\* at position i for every i in [0, 255]; this is the table every constructed
\* sampler reads.
TableDuplicated ==
    \A s \in DOMAIN generator_ :
        /\ DOMAIN permutation = 0..511
        /\ \A i \in DOMAIN permutation : permutation[i] \in 0..255
        /\ \A i \in 0..255 : permutation[i + 256] = permutation[i]

\* C2: in every call the draw is an integer in [0, 511], index lies in
\* [0, 255] and index + 1 in [1, 256], so both lookups are inside the table.
IndexInBounds ==
    Called =>
        /\ frame.random_value.exp = 0
        /\ Leq(FromInt(0), frame.random_value)
        /\ Leq(frame.random_value, FromInt(511))
        /\ frame.index \in 0..255
        /\ (frame.index + 1) \in 1..256
        /\ frame.index \in DOMAIN permutation
        /\ (frame.index + 1) \in DOMAIN permutation

\* a call on the largest draw has looked up positions 255 and 256
IndexInBoundsWitness ==
    /\ Called
    /\ frame.random_value = FromInt(511)
    /\ frame.index = 255

\* C3: the value returned by a call equals 2 * (g0 + fadeVal * (g1 - g0)) with
\* index = floor(r) AND 0xFF, frac = r - floor(r), fadeVal the quintic
\* r^3 * (r * (6r - 15) + 10) of the raw draw r, g0 = grad(table[index], frac)
\* and g1 = grad(table[index + 1], frac - 1).
ClosedForm ==
    Called =>
        LET r       == frame.random_value
            whole   == Floor(r)
            index   == ToInt64(whole) % 256
            frac    == Sub(r, whole)
            fm1     == Sub(frac, FromInt(1))
            cube    == Mul(r, Mul(r, r))
            fadeVal == Mul(cube, Add(Mul(r, Sub(Mul(FromInt(6), r), FromInt(15))),
                                     FromInt(10)))
            g0      == IF permutation[index] % 2 = 0 THEN frac ELSE Neg(frac)
            g1      == IF permutation[index + 1] % 2 = 0 THEN fm1 ELSE Neg(fm1)
        IN  /\ frame.index = index
            /\ frame.floor_value = frac
            /\ frame.fade_value = fadeVal
            /\ frame.g0 = g0
            /\ frame.g1 = g1
            /\ frame.result = Mul(FromInt(2), Add(g0, Mul(fadeVal, Sub(g1, g0))))

\* a call on the draw 3 has returned -2 * fade(3) = -1026 (table[4] = 90 is
\* even)
ClosedFormWitness ==
    /\ Called
    /\ frame.random_value = FromInt(3)
    /\ frame.result = FromInt(-1026)

\* C4: grad(h, x) is x when h is even and -x when h is odd, for negative h and
\* for zero, negative and fractional x as well.
GradParity ==
    gcall.called =>
        /\ gcall.hash % 2 = 0 => gcall.ret = gcall.x
        /\ gcall.hash % 2 = 1 => gcall.ret = Neg(gcall.x)

\* grad has negated a negative x for a negative odd hash
GradParityWitness ==
    /\ gcall.called
    /\ gcall.hash = -3
    /\ gcall.x = FromInt(-2)
    /\ gcall.ret = FromInt(2)

\* C5: two samplers whose engines started in the same state have returned the
\* same values call for call; after equally many calls their output sequences
\* are identical.
Deterministic ==
    \A i, j \in Instances :
        seed[i] = seed[j] =>
            /\ \A k \in DOMAIN out[i] \cap DOMAIN out[j] : out[i][k] = out[j][k]
            /\ Len(out[i]) = Len(out[j]) => out[i] = out[j]

\* two samplers constructed in the same tick have each been called twice
DeterministicWitness ==
    /\ seed[1] = seed[2]
    /\ Len(out[1]) >= 2
    /\ Len(out[2]) >= 2
    /\ out[1][1] # out[1][2]

\* C6: a call changes the engine state of the instance it is called on and
\* nothing else: the other instance's engine state and outputs, and the
\* bounds [0, 511] of every distribution, are as before.
CallFrame ==
    [][ /\ frame'.inst \in Instances
        /\ \A j \in Instances \ {frame'.inst} :
              /\ generator_'[j] = generator_[j]
              /\ out'[j] = out[j]
        /\ distribution_' = distribution_
        /\ \A j \in Instances : distribution_'[j] = [a |-> 0, b |-> 511]
        /\ seed' = seed ]_vars

\* instance 1 has been called and instance 2, never called, still holds the
\* engine state it was constructed with
CallFrameWitness ==
    /\ Called
    /\ Len(out[1]) >= 2
    /\ generator_[1] # seed[1]
    /\ out[2] = <<>>
    /\ generator_[2] = seed[2]

\* C7: when the calls on an instance are serialized by a mutex, or each
\* thread calls its own instance, the calls on an instance read pairwise
\* distinct, successive engine states, starting from the seeded one.
SerializedCallsDistinct ==
    mode \in {"mutex", "perthread"} =>
        \A i \in Instances : \A k, l \in DOMAIN log[i] :
            /\ k # l => log[i][k] # log[i][l]
            /\ k = 1 => log[i][k] = seed[i]
            /\ l = k + 1 => log[i][l] = Advance(log[i][k])

\* C7, the race: two unsynchronized calls on instance 1 have both read the
\* seeded engine state, both returned the same value, and the engine has
\* advanced once
LostAdvance ==
    /\ mode = "unsync"
    /\ \A t \in Threads : pc[t] = "idle" /\ Len(tret[t]) = 1
    /\ log[1] = <<seed[1], seed[1]>>
    /\ tret[1] = tret[2]
    /\ generator_[1] = Advance(seed[1])

\* C8: the fractional part computed by a call is zero.
FracIsZero == Called => IsZero(frame.floor_value)

\* a call on the draw 300 has computed the fractional part 0
FracIsZeroWitness ==
    /\ Called
    /\ frame.random_value = FromInt(300)
    /\ IsZero(frame.floor_value)

\* C9: on the integer draw r a call returns -2 * fade(r) when
\* table[(r AND 0xFF) + 1] is even and +2 * fade(r) when it is odd; g0 is 0;
\* the result is 0 exactly when r = 0; for r = 255 and r = 511 the sign is
\* decided by the table element at position 256.
SignedFade ==
    Called =>
        LET r     == ToInt64(frame.random_value)
            next  == permutation[BitAnd(r, 255) + 1]
            twice == Mul(FromInt(2), fade(frame.random_value))
        IN  /\ frame.result = IF next % 2 = 0 THEN Neg(twice) ELSE twice
            /\ IsZero(frame.g0)
            /\ IsZero(frame.result) <=> r = 0
            /\ r \in {255, 511} =>
                  frame.result = IF permutation[256] % 2 = 0 THEN Neg(twice) ELSE twice

\* a call on the draw 255 has returned a negative value: table[256] is even
SignedFadeWitness ==
    /\ Called
    /\ frame.random_value = FromInt(255)
    /\ frame.index + 1 = 256
    /\ frame.result.neg

\* 2 * fade(511) = 416062514520002
TwiceFadeMax == Add(Mul(FromInt(416062), FromInt(1000000000)), FromInt(514520002))

\* 2^63
TwoTo63 == Mul(FromInt(2097152), Mul(FromInt(2097152), FromInt(2097152)))

\* the value a call returns on the largest draw, up to its sign
TwiceFadeOfMax == Mul(FromInt(2), fade(FromInt(511)))

\* C10: over the draws, fade is non-negative and non-decreasing, no
\* intermediate or returned value of a call exceeds 2 * fade(511) in
\* magnitude, and that magnitude is below 2^63 and above 2^31 - 1.
FadeMagnitude ==
    Called =>
        LET r == frame.random_value
        IN  /\ ~frame.fade_value.neg
            /\ Leq(frame.fade_value, fade(Add(r, FromInt(1)))) \/ r = FromInt(511)
            /\ \A v \in frame.temps : Leq(Abs(v), TwiceFadeMax)
            /\ TwiceFadeOfMax = TwiceFadeMax
            /\ Leq(TwiceFadeMax, TwoTo63) /\ TwiceFadeMax # TwoTo63
            /\ Leq(FromInt(2147483647), TwiceFadeMax) /\ TwiceFadeMax # FromInt(2147483647)

\* a call on the draw 511 has returned a value of magnitude 2 * fade(511)
FadeMagnitudeWitness ==
    /\ Called
    /\ frame.random_value = FromInt(511)
    /\ Abs(frame.result) = TwiceFadeMax

====
